---- MODULE Spec2Model ----
(***************************************************************************)
(* audiobookshelf-discord-rpc: the poll loop that mirrors the media        *)
(* server's listening session to the Discord presence.                     *)
(*                                                                         *)
(* The repository holds two revisions of the program:                      *)
(*   src/index.js          lastKnownTime / isPaused, itemsPerPage=1        *)
(*   src/unnamed/part_000  lastCurrentTime / lastUpdatedAt, itemsPerPage=10*)
(* Init picks the revision that runs (program); every action is the        *)
(* translation of one callback of that revision.                           *)
(***************************************************************************)
EXTENDS Integers, Sequences, FiniteSets, TLC

\* ------------------------------------------------------------- bounds
\* setActivity() invocations (the ready call plus timer ticks) explored.
MaxPolls == 4
\* Timer ticks explored that start a cycle while an earlier one is still pending.
MaxOverlaps == 1
\* Sessions in one response page (the server's itemsPerPage caps it too).
MaxPage == 2
\* Server timestamps startedAt / updatedAt range over 1..MaxStamp.
MaxStamp == 2

\* ---------------------------------------------------- program constants
\* lastKnownTime = null (a value no currentTime takes).
Null == -1
\* itemsPerPage of the two revisions' listening-sessions request.
ItemsPerPageIndex == 1
ItemsPerPagePart == 10

IndexJs == "index.js"
Part000 == "part_000"

Books == {"Dune", "Emma"}
Times == {0, 100, 150}
Stamps == 1..MaxStamp
NoBook == ""

\* One element of response.sessions: a session record, or null (a malformed
\* element: reading a property of it throws a TypeError).
NullElem == [null |-> TRUE]
SessionRecs ==
    {s \in [displayTitle : Books, currentTime : Times,
            startedAt : Stamps, updatedAt : Stamps] : s.startedAt <= s.updatedAt}
IsNull(e) == "null" \in DOMAIN e
Elems == SessionRecs \cup {NullElem}

\* The listening-sessions list is most-recent-first: pg[i + 1] is a session
\* updated no later than pg[i]. The sessions listed after the first are older
\* ones; the model lets them be for one book (OlderBook) at a position of
\* OlderTimes, with any timestamps, or null.
OlderBook == "Emma"
OlderTimes == {0, 100}
Older(e) == IsNull(e) \/ (e.displayTitle = OlderBook /\ e.currentTime \in OlderTimes)
Sorted(pg) ==
    \A i \in 1..(Len(pg) - 1) :
        /\ Older(pg[i + 1])
        /\ ~IsNull(pg[i])
        /\ ~IsNull(pg[i + 1]) => pg[i].updatedAt >= pg[i + 1].updatedAt

Min(a, b) == IF a < b THEN a ELSE b

PagesUpTo(n) ==
    {pg \in UNION {[1..k -> Elems] : k \in 0..n} : Sorted(pg)}

ItemsPerPage(prog) == IF prog = IndexJs THEN ItemsPerPageIndex ELSE ItemsPerPagePart

\* The body of a sampler response: text JSON.parse rejects (or an object with no
\* sessions array), or an object with a sessions page.
Garbage == [parsed |-> FALSE, sessions |-> <<>>]
Bodies(prog) ==
    {Garbage} \cup
    {[parsed |-> TRUE, sessions |-> pg] : pg \in PagesUpTo(Min(ItemsPerPage(prog), MaxPage))}

\* How a cover search ends: a transport error, a body that does not parse (or has
\* no results array), an empty results array, a results array with a cover.
CoverOutcomes == {"error", "malformed", "empty", "found"}
CoverUrl == "url"
Undefined == "undefined"

VARIABLES
    program,          \* the revision that runs
    ready,            \* rpc 'ready' has fired: the timer is armed
    polls,            \* setActivity() invocations so far
    overlaps,         \* those made while an earlier cycle was still pending
    samplerPending,   \* polls whose listening-sessions request is in flight
    coverPending,     \* cover lookups in flight
    lastKnownTime,    \* index.js line 52
    isPaused,         \* index.js line 53
    lastCurrentTime,  \* part_000 line 53
    lastUpdatedAt,    \* part_000 line 54
    calls,            \* the presence channel: the poll and kind of every rpc call, in order
    presence,         \* the presence channel: the argument of the last rpc call
    last,             \* the sampler outcome handled last: [poll, input, branch]
    seen,             \* what the last two polls that got a page reported
    run,              \* how many polls in a row reported what the last one did (3: more)
    rising,           \* every poll with a page reported one book, at a later time each
    trace,            \* how far the polls handled so far follow ScenarioTrace
    alive,            \* the node process is running: its timer still fires
    seconds,          \* the argument of the formatTime call under study
    formatted         \* what that call returned (NotFormatted before it)

vars == <<program, ready, polls, overlaps, samplerPending, coverPending, lastKnownTime,
          isPaused, lastCurrentTime, lastUpdatedAt, calls, presence, last, seen,
          run, rising, trace, alive, seconds, formatted>>

tracker == <<lastKnownTime, isPaused, lastCurrentTime, lastUpdatedAt>>
history == <<last, seen, run, rising, trace>>
channel == <<calls, presence>>
formatting == <<seconds, formatted>>

NoLast == [poll |-> 0, input |-> "", branch |-> ""]
NoCall == [op |-> "none", details |-> NoBook, image |-> NoBook]
Off == 0 - 1
NotFormatted == <<>>

\* The module is loaded: the declarations of lines 52-54, nothing has run yet.
Loaded ==
    /\ program \in {IndexJs, Part000}
    /\ ready = FALSE
    /\ polls = 0
    /\ overlaps = 0
    /\ samplerPending = {}
    /\ coverPending = {}
    /\ lastKnownTime = Null
    /\ isPaused = FALSE
    /\ lastCurrentTime = 0
    /\ lastUpdatedAt = 0
    /\ calls = <<>>
    /\ presence = NoCall
    /\ last = NoLast
    /\ seen = <<>>
    /\ run = 0
    /\ rising = TRUE
    /\ trace = 0
    /\ alive = TRUE

Init ==
    /\ Loaded
    /\ seconds = 0
    /\ formatted = NotFormatted

\* ------------------------------------------------------------ history
\* The history variables (last, seen, run, rising, trace) record what the
\* callbacks were given and which branch they took; no callback reads them.
InFlight == samplerPending \cup {c.poll : c \in coverPending}

Call(p, op) == [poll |-> p, op |-> op]
\* rpc.clearActivity()
ClearActivity == [op |-> "clear", details |-> NoBook, image |-> NoBook]
\* rpc.setActivity({details: `Listening to ${bookName}`, largeImageKey: coverUrl, ...})
SetActivity(bookName, coverUrl) == [op |-> "set", details |-> bookName, image |-> coverUrl]

\* A cover lookup in flight: the poll, the bookName and currentTime its
\* continuation holds, and (history) the session's place in the page, its
\* updatedAt and lastUpdatedAt as the poll found it.
Lookup(p, bookName, currentTime, place, updatedAt, cursor) ==
    [poll |-> p, bookName |-> bookName, currentTime |-> currentTime,
     place |-> place, updatedAt |-> updatedAt, cursor |-> cursor]

Report(book, time) == [book |-> book, time |-> time]
NoSession == Report(NoBook, Null)
Last(p, input, branch) == [poll |-> p, input |-> input, branch |-> branch]

\* seen with one more report, cut to the last two.
Window(r) ==
    LET all == Append(seen, r)
    IN  IF Len(all) > 2 THEN Tail(all) ELSE all

\* run and rising after one more report.
RunAfter(r) ==
    IF seen # <<>> /\ seen[Len(seen)] = r THEN (IF run < 3 THEN run + 1 ELSE 3) ELSE 1
RisingAfter(r) ==
    /\ rising
    /\ r # NoSession
    /\ seen # <<>> => (seen[Len(seen)].book = r.book /\ seen[Len(seen)].time < r.time)

\* The four-poll scenario of the end-to-end test: Dune at 100, Dune at 100, no
\* session, Dune at 150.
ScenarioTrace ==
    <<[book |-> "Dune", time |-> 100], [book |-> "Dune", time |-> 100],
      [book |-> NoBook, time |-> Null], [book |-> "Dune", time |-> 150]>>

\* What the page of a response says is playing: its one session, or nothing.
PageSays(data) ==
    IF data.parsed /\ Len(data.sessions) = 1 /\ ~IsNull(data.sessions[1])
    THEN [book |-> data.sessions[1].displayTitle, time |-> data.sessions[1].currentTime]
    ELSE IF data.parsed /\ data.sessions = <<>>
    THEN [book |-> NoBook, time |-> Null]
    ELSE [book |-> "?", time |-> Null]

Follows(p, data) ==
    IF trace = p - 1 /\ p <= Len(ScenarioTrace) /\ PageSays(data) = ScenarioTrace[p]
    THEN p ELSE Off

\* rpc.clearActivity() and rpc.setActivity() return promises that no caller
\* handles: clearActivity's is dropped, and setActivity's is not returned from
\* the .then callback, so the .catch after it never sees it. If the call is
\* rejected, what happens is the runtime's policy for unhandled rejections: a
\* warning (the process goes on: TRUE) or an uncaught exception that ends the
\* process (FALSE). AfterCalls(n): whether the process lives on after a callback
\* that made n rpc calls.
AfterCalls(n) == IF n > 0 THEN BOOLEAN ELSE {TRUE}

\* ------------------------------------------------------- the poll loop
\* setActivity(): build the request and send it (req.end()).
setActivity ==
    /\ alive
    /\ polls < MaxPolls
    /\ InFlight # {} => overlaps < MaxOverlaps
    /\ polls' = polls + 1
    /\ overlaps' = IF InFlight # {} THEN overlaps + 1 ELSE overlaps
    /\ samplerPending' = samplerPending \cup {polls + 1}

\* rpc.on('ready'): the first cycle starts at once, and the interval is armed.
Ready ==
    /\ ~ready
    /\ ready' = TRUE
    /\ setActivity
    /\ UNCHANGED <<program, coverPending, tracker, channel, history, alive, formatting>>

\* The setInterval callback: it starts a cycle whatever is still pending.
TimerTick ==
    /\ ready
    /\ setActivity
    /\ UNCHANGED <<program, ready, coverPending, tracker, channel, history, alive,
                   formatting>>

\* req.on('error'): the error is logged, nothing else.
SamplerError(p) ==
    /\ alive
    /\ p \in samplerPending
    /\ samplerPending' = samplerPending \ {p}
    /\ last' = Last(p, "error", "error")
    /\ trace' = Off
    /\ UNCHANGED <<program, ready, polls, overlaps, coverPending, tracker, channel, seen,
                   run, rising, alive, formatting>>

\* ------------------------------------------------- index.js, lines 72-110
\* JSON.parse(data).sessions[0] and the reads of its properties (lines 74-78):
\* whether they throw, which the catch of line 108 logs.
IndexThrows(data) ==
    \/ ~data.parsed
    \/ data.sessions = <<>>
    \/ IsNull(data.sessions[1])

\* Lines 80-107 for a session with this currentTime: the new lastKnownTime and
\* isPaused, the branch taken, and what the handler does: "clear"
\* (rpc.clearActivity()), "cover" (getCoverPath, then rpc.setActivity) or "none".
IndexStep(lkt, paused, currentTime) ==
    IF lkt = Null
    THEN [lastKnownTime |-> currentTime, isPaused |-> paused, branch |-> "first",
          effect |-> IF ~paused THEN "cover" ELSE "none"]
    ELSE IF currentTime = lkt
    THEN [lastKnownTime |-> lkt, isPaused |-> TRUE, branch |-> "paused",
          effect |-> IF ~paused THEN "clear" ELSE "none"]
    ELSE [lastKnownTime |-> currentTime, isPaused |-> FALSE, branch |-> "changed",
          effect |-> "cover"]

\* What a response is, seen from outside the handler.
InputOf(data) ==
    IF ~data.parsed THEN "garbage"
    ELSE IF \E i \in 1..Len(data.sessions) : IsNull(data.sessions[i]) THEN "malformed"
    ELSE "ok"

\* res.on('end') of index.js.
SamplerEndIndex(p, data) ==
    /\ program = IndexJs
    /\ alive
    /\ p \in samplerPending
    /\ samplerPending' = samplerPending \ {p}
    /\ trace' = Follows(p, data)
    /\ IF IndexThrows(data)
       THEN /\ last' = Last(p, InputOf(data), "throw")
            /\ seen' = IF InputOf(data) = "ok" THEN Window(NoSession) ELSE seen
            /\ run' = IF InputOf(data) = "ok" THEN RunAfter(NoSession) ELSE run
            /\ rising' = IF InputOf(data) = "ok" THEN FALSE ELSE rising
            /\ UNCHANGED <<lastKnownTime, isPaused, channel, coverPending, alive>>
       ELSE LET session == data.sessions[1]
                bookName == session.displayTitle
                currentTime == session.currentTime
                step == IndexStep(lastKnownTime, isPaused, currentTime)
            IN  /\ last' = Last(p, "ok", step.branch)
                /\ seen' = Window(Report(bookName, currentTime))
                /\ run' = RunAfter(Report(bookName, currentTime))
                /\ rising' = RisingAfter(Report(bookName, currentTime))
                /\ lastKnownTime' = step.lastKnownTime
                /\ isPaused' = step.isPaused
                /\ calls' = IF step.effect = "clear"
                            THEN Append(calls, Call(p, "clear")) ELSE calls
                /\ presence' = IF step.effect = "clear" THEN ClearActivity ELSE presence
                /\ alive' \in AfterCalls(IF step.effect = "clear" THEN 1 ELSE 0)
                /\ coverPending' =
                       IF step.effect = "cover"
                       THEN coverPending \cup {Lookup(p, bookName, currentTime, 1, 0, 0)}
                       ELSE coverPending
    /\ UNCHANGED <<program, ready, polls, overlaps, lastCurrentTime, lastUpdatedAt,
                   formatting>>

\* ------------------------------------------------ part_000, lines 73-110
\* response.sessions.filter(...) of lines 76-82, one element after the other: the
\* callback moves lastUpdatedAt as it goes, and throws on a null element. active
\* holds the places in the page of the sessions kept.
RECURSIVE Filter(_, _, _, _)
Filter(sessions, i, cursor, acc) ==
    IF i > Len(sessions)
    THEN [threw |-> FALSE, active |-> acc, cursor |-> cursor]
    ELSE LET session == sessions[i]
         IN  IF IsNull(session)
             THEN [threw |-> TRUE, active |-> acc, cursor |-> cursor]
             ELSE LET startedAt == session.startedAt
                      updatedAt == session.updatedAt
                      elapsedTime == updatedAt - cursor
                  IN  Filter(sessions, i + 1, updatedAt,
                             IF updatedAt - startedAt > elapsedTime
                             THEN Append(acc, i) ELSE acc)

activeSessions(sessions, cursor) == Filter(sessions, 1, cursor, <<>>)

\* Lines 83-107: what the handler does with the sessions the filter kept, given
\* lastCurrentTime: the new lastCurrentTime, the branch, and "clear" or "cover".
PartStep(sessions, active, lct) ==
    IF Len(active) > 0
    THEN LET session == sessions[active[1]]
         IN  [lastCurrentTime |-> session.currentTime,
              branch |-> IF session.currentTime = lct THEN "paused" ELSE "changed",
              effect |-> IF session.currentTime = lct THEN "clear" ELSE "cover"]
    ELSE [lastCurrentTime |-> lct, branch |-> "stopped", effect |-> "clear"]

\* res.on('end') of part_000.
SamplerEndPart(p, data) ==
    /\ program = Part000
    /\ alive
    /\ p \in samplerPending
    /\ samplerPending' = samplerPending \ {p}
    /\ trace' = Follows(p, data)
    /\ IF ~data.parsed
       THEN /\ last' = Last(p, "garbage", "throw")
            /\ UNCHANGED <<lastCurrentTime, lastUpdatedAt, channel, coverPending,
                           seen, run, rising, alive>>
       ELSE LET f == activeSessions(data.sessions, lastUpdatedAt)
                step == PartStep(data.sessions, f.active, lastCurrentTime)
                r == IF Len(f.active) > 0
                     THEN Report(data.sessions[f.active[1]].displayTitle,
                                 data.sessions[f.active[1]].currentTime)
                     ELSE NoSession
            IN  /\ lastUpdatedAt' = f.cursor
                /\ IF f.threw
                   THEN /\ last' = Last(p, "malformed", "throw")
                        /\ UNCHANGED <<lastCurrentTime, channel, coverPending, seen,
                                       run, rising, alive>>
                   ELSE /\ last' = Last(p, "ok", step.branch)
                        /\ seen' = Window(r)
                        /\ run' = RunAfter(r)
                        /\ rising' = RisingAfter(r)
                        /\ lastCurrentTime' = step.lastCurrentTime
                        /\ calls' = IF step.effect = "clear"
                                    THEN Append(calls, Call(p, "clear")) ELSE calls
                        /\ presence' = IF step.effect = "clear"
                                       THEN ClearActivity ELSE presence
                        /\ alive' \in AfterCalls(IF step.effect = "clear" THEN 1 ELSE 0)
                        /\ coverPending' =
                               IF step.effect = "cover"
                               THEN coverPending \cup
                                    {Lookup(p, r.book, r.time, f.active[1],
                                            data.sessions[f.active[1]].updatedAt,
                                            lastUpdatedAt)}
                               ELSE coverPending
    /\ UNCHANGED <<program, ready, polls, overlaps, lastKnownTime, isPaused, formatting>>

\* ------------------------------------------- getCoverPath and its callers
\* getCoverPath's promise: resolve(response.results[0]) (undefined when results
\* is empty), or reject on a transport error or a body that does not parse.
getCoverPath(outcome) ==
    CASE outcome = "found" -> [resolved |-> TRUE, coverUrl |-> CoverUrl]
      [] outcome = "empty" -> [resolved |-> TRUE, coverUrl |-> Undefined]
      [] OTHER -> [resolved |-> FALSE, coverUrl |-> Undefined]

CoverContinuation_setTwice(c, r) ==
    IF r.resolved
    THEN <<SetActivity(c.bookName, r.coverUrl), SetActivity(c.bookName, r.coverUrl)>>
    ELSE <<>>

\* .then(coverUrl => rpc.setActivity({...})).catch(error => console.error(...)):
\* the calls the continuation of cover lookup c makes.
CoverContinuation(c, r) ==
    IF r.resolved THEN <<SetActivity(c.bookName, r.coverUrl)>> ELSE <<>>

\* The cover lookup of one poll ends and its continuation runs.
CoverEnd(c, outcome) ==
    /\ alive
    /\ c \in coverPending
    /\ coverPending' = coverPending \ {c}
    /\ LET made == CoverContinuation(c, getCoverPath(outcome))
       IN  /\ calls' = calls \o [i \in 1..Len(made) |-> Call(c.poll, made[i].op)]
           /\ presence' = IF made = <<>> THEN presence ELSE made[Len(made)]
           /\ alive' \in AfterCalls(Len(made))
    /\ trace' = IF outcome = "found" THEN trace ELSE Off
    /\ UNCHANGED <<program, ready, polls, overlaps, samplerPending, tracker, last, seen, run,
                   rising, formatting>>

Next ==
    \/ Ready
    \/ TimerTick
    \/ \E p \in samplerPending : SamplerError(p)
    \/ \E p \in samplerPending : \E data \in Bodies(IndexJs) : SamplerEndIndex(p, data)
    \/ \E p \in samplerPending : \E data \in Bodies(Part000) : SamplerEndPart(p, data)
    \/ \E c \in coverPending : \E outcome \in CoverOutcomes : CoverEnd(c, outcome)

Spec == Init /\ [][Next]_vars

\* ------------------------------------------------------------ formatTime
\* Strings are sequences of one-character strings.
Digits == <<"0", "1", "2", "3", "4", "5", "6", "7", "8", "9">>

\* Number.prototype.toString() of a non-negative integer: its decimal digits.
RECURSIVE toString(_)
toString(n) ==
    IF n < 10 THEN <<Digits[n + 1]>>
    ELSE toString(n \div 10) \o <<Digits[(n % 10) + 1]>>

\* String.prototype.padStart(targetLength, padString) for a one-character pad.
RECURSIVE padStart(_, _, _)
padStart(str, targetLength, padString) ==
    IF Len(str) >= targetLength THEN str
    ELSE padStart(<<padString>> \o str, targetLength, padString)

formatTime_minutesOfTotal(secs) ==
    LET hours == secs \div 3600
        minutes == secs \div 60
        remainingSeconds == secs % 60
    IN  padStart(toString(hours), 2, "0") \o <<":">> \o
        padStart(toString(minutes), 2, "0") \o <<":">> \o
        padStart(toString(remainingSeconds), 2, "0")

\* formatTime(seconds) for a non-negative integer (Math.floor of a quotient of
\* integers is \div; seconds % 60 is an integer already).
formatTime(secs) ==
    LET hours == secs \div 3600
        minutes == (secs % 3600) \div 60
        remainingSeconds == secs % 60
    IN  padStart(toString(hours), 2, "0") \o <<":">> \o
        padStart(toString(minutes), 2, "0") \o <<":">> \o
        padStart(toString(remainingSeconds), 2, "0")

\* The arguments explored: every value up to MaxSeconds (past one hour), ten
\* hours, and the values around the first three-digit hour.
MaxSeconds == 3700
Seconds == (0..MaxSeconds) \cup {36000, 359999, 360000, 360001, 3600000}

InitFormat ==
    /\ Loaded
    /\ program = IndexJs
    /\ seconds \in Seconds
    /\ formatted = NotFormatted

\* One call of formatTime.
FormatTime ==
    /\ formatted = NotFormatted
    /\ formatted' = formatTime(seconds)
    /\ UNCHANGED <<program, ready, polls, overlaps, samplerPending, coverPending, tracker,
                   channel, history, alive, seconds>>

SpecFormat == InitFormat /\ [][FormatTime]_vars

\* =================================================================== claims
\* The rpc calls poll p made, in order.
OpsBy(p) ==
    LET By(c) == c.poll = p
        mine == SelectSeq(calls, By)
    IN  [i \in 1..Len(mine) |-> mine[i].op]

\* This step is a sampler callback (res.on('end') or req.on('error')).
SamplerStep == samplerPending' # samplerPending /\ polls' = polls
\* The state is the one a poll that got a page has just reported into.
Reported == last.input = "ok" /\ seen # <<>>
Current == seen[Len(seen)]

\* C1: when two or more polls in a row report the same book at the same
\* elapsedSeconds, the first poll that repeats the value makes one clear call
\* and every later poll of the run makes no call at all.
C1_ClearOnceThenNothing ==
    (Reported /\ Current # NoSession /\ run >= 2 /\ last.poll \notin InFlight)
        => OpsBy(last.poll) = IF run = 2 THEN <<"clear">> ELSE <<>>

\* C2: while every poll from startup reports one book at strictly increasing
\* elapsedSeconds (a first value of 0 included), no poll takes the pause branch.
C2_RisingNeverPaused ==
    (Reported /\ rising) => last.branch # "paused"

\* index.js alone keeps C2: its lastKnownTime starts as null, not as 0.
C2_IndexJsRisingNeverPaused == program = IndexJs => C2_RisingNeverPaused
C2_IndexJsRisingFromZero ==
    program = IndexJs /\ Reported /\ rising /\ Len(seen) = 2 /\ seen[1].time = 0

\* C3: a poll whose sampler request fails (transport error, unparsable body, a
\* malformed element in the sessions list) makes no rpc call and leaves every
\* tracker variable as it was.
C3_FailedPollChangesNothing ==
    [][(SamplerStep /\ last'.input \in {"error", "garbage", "malformed"})
          => (tracker' = tracker /\ channel' = channel)]_vars

\* index.js alone keeps C3: everything that can throw comes before line 80.
C3_IndexJsFailedPollChangesNothing ==
    [][program = IndexJs
          => ((SamplerStep /\ last'.input \in {"error", "garbage", "malformed"})
                 => (tracker' = tracker /\ channel' = channel))]_vars

\* C4: when the cover lookup of a poll fails (transport error, malformed body,
\* zero results) the poll still makes its set call, with no image.
C4_SetWithoutCover ==
    [][\A c \in coverPending : \A outcome \in {"error", "malformed", "empty"} :
          CoverEnd(c, outcome)
              => /\ calls' = Append(calls, Call(c.poll, "set"))
                 /\ presence' = SetActivity(c.bookName, Undefined)]_vars

\* C5: once a presence has been set, a poll that gets a page with no active
\* session makes a clear call if the presence is not cleared already, and no
\* call if it is.
C5_ClearWhenSessionGone ==
    [][(SamplerStep /\ last'.input = "ok" /\ seen'[Len(seen')] = NoSession
            /\ \E i \in DOMAIN calls : calls[i].op = "set")
          => calls' = IF presence.op = "set"
                      THEN Append(calls, Call(last'.poll, "clear")) ELSE calls]_vars

\* C6: on the trace Dune at 100, Dune at 100, no session, Dune at 150, every
\* cover lookup finding a cover, the calls are: set by poll 1, clear by poll 2,
\* none by poll 3, set by poll 4.
ScenarioCalls == << <<"set">>, <<"clear">>, <<>>, <<"set">> >>
C6_ScenarioCalls ==
    \A k \in 1..Len(ScenarioTrace) :
        (trace >= k /\ k \notin InFlight) => OpsBy(k) = ScenarioCalls[k]
\* What index.js does on that trace is what C6 says.
C6_IndexJsFollowsScenario == program = IndexJs => C6_ScenarioCalls
C6_IndexJsScenarioDone == program = IndexJs /\ trace = Len(ScenarioTrace) /\ InFlight = {}

\* C7: poll cycles never overlap: at most one cycle (sampler request, cover
\* lookup) is in flight at any moment.
C7_CyclesNeverOverlap == Cardinality(InFlight) <= 1

\* C8: a poll that reports another book than the poll before it is an update
\* for the new book, whatever its elapsedSeconds: it does not take the pause
\* branch and makes no clear call.
C8_BookSwitchIsStarted ==
    (Reported /\ Len(seen) = 2 /\ seen[1] # NoSession /\ Current # NoSession
        /\ seen[1].book # Current.book)
        => (last.branch # "paused" /\ \A i \in DOMAIN OpsBy(last.poll) :
                                          OpsBy(last.poll)[i] # "clear")

\* C9: every session of one page is classified against the cursor recorded
\* before the poll: it is active iff updatedAt - startedAt > updatedAt - cursor.
RECURSIVE ActiveAgainst(_, _, _)
ActiveAgainst(sessions, i, cursor) ==
    IF i > Len(sessions) THEN <<>>
    ELSE (IF sessions[i].updatedAt - sessions[i].startedAt
                > sessions[i].updatedAt - cursor
          THEN <<i>> ELSE <<>>) \o ActiveAgainst(sessions, i + 1, cursor)
C9_OneCursorPerPage ==
    [][\A p \in samplerPending : \A data \in Bodies(Part000) :
          (InputOf(data) = "ok" /\ SamplerEndPart(p, data))
              => activeSessions(data.sessions, lastUpdatedAt).active
                    = ActiveAgainst(data.sessions, 1, lastUpdatedAt)]_vars

\* C10: no set call is made for a stale session: one whose updatedAt is not
\* later than the cursor an earlier poll recorded, or, when no poll recorded
\* one yet, one listed after the most recent session of the page.
Stale(c) == IF c.cursor = 0 THEN c.place > 1 ELSE c.updatedAt <= c.cursor
C10_NoSetForStaleSession ==
    [][\A c \in coverPending :
          (c \notin coverPending' /\ calls' = Append(calls, Call(c.poll, "set")))
              => ~Stale(c)]_vars

\* ---- formatTime read back: the text split at its colons, and the number a
\* field of digits writes.
RECURSIVE Fields(_)
Fields(str) ==
    IF \A i \in 1..Len(str) : str[i] # ":" THEN <<str>>
    ELSE LET k == CHOOSE i \in 1..Len(str) :
                      str[i] = ":" /\ \A j \in 1..(i - 1) : str[j] # ":"
         IN  <<SubSeq(str, 1, k - 1)>> \o Fields(SubSeq(str, k + 1, Len(str)))

IsDigit(ch) == \E d \in 1..Len(Digits) : Digits[d] = ch
DigitValue(ch) == (CHOOSE d \in 1..Len(Digits) : Digits[d] = ch) - 1

RECURSIVE ValueOf(_)
ValueOf(field) ==
    IF field = <<>> THEN 0
    ELSE 10 * ValueOf(SubSeq(field, 1, Len(field) - 1)) + DigitValue(field[Len(field)])

\* A field of digits zero-padded to two characters: two characters, or more
\* with no leading zero.
PaddedToTwo(field) ==
    /\ Len(field) >= 2
    /\ \A i \in 1..Len(field) : IsDigit(field[i])
    /\ Len(field) > 2 => field[1] # "0"

\* C11: formatTime(s) is "H:M:S", hours, minutes and seconds of s (minutes and
\* seconds below 60, the three adding up to s), each written in decimal and
\* zero-padded to at least two characters (hours keep all their digits);
\* formatTime(0) = "00:00:00", formatTime(3661) = "01:01:01" and
\* formatTime(36000) = "10:00:00".
C11_FormatTime ==
    formatted # NotFormatted =>
        LET f == Fields(formatted)
        IN  /\ Len(f) = 3
            /\ \A i \in 1..3 : PaddedToTwo(f[i])
            /\ ValueOf(f[2]) < 60
            /\ ValueOf(f[3]) < 60
            /\ 3600 * ValueOf(f[1]) + 60 * ValueOf(f[2]) + ValueOf(f[3]) = seconds
            /\ seconds = 0 => formatted = <<"0", "0", ":", "0", "0", ":", "0", "0">>
            /\ seconds = 3661 => formatted = <<"0", "1", ":", "0", "1", ":", "0", "1">>
            /\ seconds = 36000 => formatted = <<"1", "0", ":", "0", "0", ":", "0", "0">>

\* formatTime was called on a time of more than 99 hours: the hours field has
\* three digits.
C11_ThreeDigitHours ==
    /\ seconds = 360001
    /\ formatted = <<"1", "0", "0", ":", "0", "0", ":", "0", "1">>

\* C12: every poll cycle makes at most one rpc call, set and clear calls
\* counted together, over its whole life.
C12_AtMostOneCallPerPoll ==
    \A p \in 1..polls : Len(OpsBy(p)) <= 1

\* Two cycles have ended, one having made its set call and one its clear call.
C12_OneSetOneClear ==
    \E p, q \in (1..polls) \ InFlight :
        OpsBy(p) = <<"set">> /\ OpsBy(q) = <<"clear">>

\* C13: a set call computed by poll N is never applied after a clear call
\* issued by a later poll M > N.
C13_NoLateSetAfterClear ==
    \A i, j \in DOMAIN calls :
        (i < j /\ calls[i].op = "clear" /\ calls[j].op = "set")
            => calls[j].poll >= calls[i].poll

LastCall == calls[Len(calls)]

\* C14: once an rpc call has been made, isPaused is true exactly when the most
\* recent call was a clear call: no poll resets the flag to false without going
\* on to make a set call. (States with a cover lookup still pending, where the
\* set call may yet come, are left out.)
C14_PausedIffCleared ==
    (program = IndexJs /\ calls # <<>> /\ coverPending = {})
        => (isPaused <=> LastCall.op = "clear")

\* C15: after a poll that got a page with no active session, the next poll that
\* gets a page with an active session takes the update path (it goes on to the
\* set call), whatever its elapsedSeconds, the value recorded before the
\* session disappeared included.
C15_StartedAfterNone ==
    (Reported /\ Len(seen) = 2 /\ seen[1] = NoSession /\ Current # NoSession)
        => last.branch \in {"first", "changed"}

\* C16: no failure inside a cycle stops the poll loop: once the timer is armed
\* it keeps firing, after a sampler failure, a cover failure or a rejected rpc
\* call alike.
C16_NoFailureStopsLoop ==
    ready => alive

\* The loop stops at a callback that makes an rpc call and nowhere else: the
\* sampler's and the cover search's failures are caught and logged.
C16_OnlyCallsStopLoop ==
    [][(alive /\ ~alive') => calls' # calls]_vars
====
